---- MODULE Spec2Model ----
(***************************************************************************)
(* Model of xplore-run/go-logger (src/pkg/file_sink.go): the CustomLogger  *)
(* facade, its FileSink, the package-level writer `logr`, and the message  *)
(* formatter FileSink.formatMessageWithDynamicFields.                      *)
(***************************************************************************)
EXTENDS Integers, Sequences, FiniteSets, TLC

VARIABLES loggers, logr, lastOp, fmtCall

vars == <<loggers, logr, lastOp, fmtCall>>

\* ------------------------------------------------------------------ bounds
MaxLoggers == 2
MaxKeys == 3
MaxCtx == 2

\* --------------------------------------------------------------- constants
\* LogLevel iota values
INFO == 0
DEBUG == 1
WARN == 2
ERROR == 3
FATAL == 4
\* SinkType iota value, and the unknown kind used by the tests
FILE == 0
BadSinkType == 999

NULL == "<nil>"

LogLevels == {INFO, DEBUG, WARN, ERROR, FATAL}
SinkTypes == {FILE, BadSinkType}

\* File paths a configuration may name.  The second one lies in a directory
\* the process cannot write to.
FilePaths == {"a.log", "/ro/b.log"}
Writable == {"a.log"}

Messages == {"m1", "m2"}

\* ------------------------------------------------------------- contexts
\* A context is nil or a chain of context.WithValue(parent, contextKey(k), v)
\* calls on context.Background(), oldest first.  A value is dynamically typed.
NilCtx == [nil |-> TRUE, values |-> <<>>]
Ctx(pairs) == [nil |-> FALSE, values |-> pairs]
StrVal(s) == [type |-> "string", val |-> s]
IntVal == [type |-> "int", val |-> "7"]
NoVal == [type |-> "nil", val |-> ""]

\* ctx.Value(contextKey(key)): the value of the innermost WithValue for key
Lookup(values, key) ==
  LET idx == {i \in 1..Len(values) : values[i].key = key}
  IN IF idx = {} THEN NoVal
     ELSE values[CHOOSE i \in idx : \A j \in idx : j <= i].value

\* ------------------------------------------------------------- formatter
RECURSIVE Join(_, _)
Join(elems, sep) ==
  IF elems = <<>> THEN ""
  ELSE IF Len(elems) = 1 THEN elems[1]
  ELSE elems[1] \o sep \o Join(Tail(elems), sep)

RECURSIVE extractFields(_, _)
extractFields(Keys, ctx) ==
  IF Keys = <<>> THEN <<>>
  ELSE LET key == Head(Keys)
           v == Lookup(ctx, key)
           ok == v.type = "string"
       IN IF ok /\ v.val # ""
          THEN <<key \o ":" \o v.val>> \o extractFields(Tail(Keys), ctx)
          ELSE extractFields(Tail(Keys), ctx)

\* variant: the fields joined inside one pair of brackets
formatMessageCommaJoined(Keys, ctx, msg) ==
  IF ctx.nil THEN msg
  ELSE LET extractedFields == extractFields(Keys, ctx.values)
       IN IF Len(extractedFields) > 0
          THEN ("[" \o Join(extractedFields, ", ") \o "]") \o " - " \o msg
          ELSE msg

formatMessageWithDynamicFields(Keys, ctx, msg) ==
  IF ctx.nil THEN msg
  ELSE LET extractedFields == extractFields(Keys, ctx.values)
       IN IF Len(extractedFields) > 0
          THEN ("[" \o Join(extractedFields, "][") \o "]") \o " - " \o msg
          ELSE msg

FormatMessage(Keys, ctx, msg) == formatMessageWithDynamicFields(Keys, ctx, msg)

\* ------------------------------------------------------------ configuration
NilFileSinkConfig == [nil |-> TRUE, FilePath |-> ""]
FileSinkConfigs == {NilFileSinkConfig} \cup {[nil |-> FALSE, FilePath |-> p] : p \in FilePaths}

LoggerConfigs == [SinkType : SinkTypes, Level : LogLevels, FileSinkConfig : FileSinkConfigs]
NoConfig == [SinkType |-> FILE, Level |-> INFO, FileSinkConfig |-> NilFileSinkConfig]

\* the package-level `var logr *zerolog.Logger`
NilLogr == [nil |-> TRUE, Filename |-> ""]

\* ------------------------------------------------------------------- sink
\* FileSink.Init: dereferences lc.FileSinkConfig, binds a new writer to the
\* configured path in the package-level slot, and returns nil.
FileSinkInit(lc, curLogr) ==
  IF lc.FileSinkConfig.nil
  THEN [outcome |-> "panicked", err |-> NULL, logr |-> curLogr]
  ELSE [outcome |-> "returned", err |-> NULL,
        logr |-> [nil |-> FALSE, Filename |-> lc.FileSinkConfig.FilePath]]

\* FileSink.Close
FileSinkClose == NULL

\* FileSink.Info/Warn/Debug/Error: logr.<Level>().Msg(msg) on the package-level
\* writer, whichever sink instance is the receiver.
FileSinkWrite(method, msg, curLogr, fault) ==
  IF fault = "write" \/ curLogr.nil
  THEN [panicked |-> TRUE, writes |-> <<>>]
  ELSE [panicked |-> FALSE,
        writes |-> <<[Filename |-> curLogr.Filename, level |-> method, msg |-> msg]>>]

\* variant: the key list of ExampleUsage
ExampleSinkKeys == <<"requestID", "userID", "userType">>

\* the zero value of `var sink FileSink` in NewCustomLogger
NewSinkKeys == <<>>

\* ----------------------------------------------------------------- logger
\* variant: the sink initialised before the kind is looked at
NewCustomLoggerInitFirst(config, curLogr) ==
  LET i == FileSinkInit(config, curLogr)
  IN IF i.outcome = "panicked"
     THEN [outcome |-> "panicked", made |-> FALSE, err |-> NULL, logr |-> i.logr]
     ELSE IF config.SinkType = FILE
     THEN [outcome |-> "returned", made |-> TRUE, err |-> NULL, logr |-> i.logr]
     ELSE [outcome |-> "returned", made |-> FALSE, err |-> "invalid sink type",
           logr |-> i.logr]

NewCustomLogger(config, curLogr) ==
  IF config.SinkType = FILE
  THEN LET i == FileSinkInit(config, curLogr)
       IN IF i.outcome = "panicked"
          THEN [outcome |-> "panicked", made |-> FALSE, err |-> NULL, logr |-> i.logr]
          ELSE IF i.err # NULL
          THEN [outcome |-> "returned", made |-> FALSE, err |-> i.err, logr |-> i.logr]
          ELSE [outcome |-> "returned", made |-> TRUE, err |-> NULL, logr |-> i.logr]
  ELSE [outcome |-> "returned", made |-> FALSE, err |-> "invalid sink type", logr |-> curLogr]

ErrorEnabled(Level) == Level = ERROR \/ Level = WARN \/ Level = INFO \/ Level = DEBUG
WarnEnabled(Level) == Level = WARN \/ Level = INFO \/ Level = DEBUG
\* variant: the threshold compared by enum value
InfoEnabledByValue(Level) == Level <= INFO
InfoEnabled(Level) == Level = INFO \/ Level = DEBUG
DebugEnabled(Level) == Level = DEBUG

\* doLog: the sink method the switch selects
doLog(level) ==
  CASE level = DEBUG -> "Debug"
    [] level = INFO -> "Info"
    [] level = WARN -> "Warn"
    [] OTHER -> "Error"

\* the body of formatAndLog below the deferred function
formatAndLogBody(c, ctx, level, msg, fault, curLogr) ==
  IF fault = "format"
  THEN [panicked |-> TRUE, sinkCalls |-> <<>>, writes |-> <<>>]
  ELSE LET formatted == FormatMessage(c.sink.ContextFields.Keys, ctx, msg)
           method == doLog(level)
           w == FileSinkWrite(method, formatted, curLogr, fault)
       IN [panicked |-> w.panicked,
           sinkCalls |-> <<[method |-> method, msg |-> formatted]>>,
           writes |-> w.writes]

\* variant: no deferred recover
formatAndLogNoRecover(c, ctx, level, msg, fault, curLogr) ==
  LET r == formatAndLogBody(c, ctx, level, msg, fault, curLogr)
  IN [outcome |-> IF r.panicked THEN "panicked" ELSE "returned",
      sinkCalls |-> r.sinkCalls, writes |-> r.writes, diag |-> FALSE]

formatAndLog(c, ctx, level, msg, fault, curLogr) ==
  LET r == formatAndLogBody(c, ctx, level, msg, fault, curLogr)
  IN [outcome |-> "returned", sinkCalls |-> r.sinkCalls, writes |-> r.writes,
      diag |-> r.panicked]

NoLog == [outcome |-> "returned", sinkCalls |-> <<>>, writes |-> <<>>, diag |-> FALSE]

\* ------------------------------------------------------------------ state
NoOp == [op |-> "none", logger |-> 0, config |-> NoConfig, ctx |-> NilCtx, msg |-> "",
         fault |-> "none", outcome |-> "returned", err |-> NULL,
         sinkCalls |-> <<>>, writes |-> <<>>, diag |-> FALSE]

NoFmt == [called |-> FALSE, Keys |-> <<>>, ctx |-> NilCtx, msg |-> "", out |-> ""]

Init ==
  /\ loggers = <<>>
  /\ logr = NilLogr
  /\ lastOp = NoOp
  /\ fmtCall = NoFmt

\* contexts handed to the level methods
LogCtxs == {NilCtx, Ctx(<<[key |-> "requestID", value |-> StrVal("123")]>>)}

Faults == {"none", "format", "write"}

\* NewCustomLogger(config)
New ==
  \E config \in LoggerConfigs :
    LET r == NewCustomLogger(config, logr)
    IN /\ r.made => Len(loggers) < MaxLoggers
       /\ loggers' = IF r.made
                     THEN Append(loggers, [config |-> config,
                                           sink |-> [ContextFields |-> [Keys |-> NewSinkKeys]]])
                     ELSE loggers
       /\ logr' = r.logr
       /\ lastOp' = [NoOp EXCEPT !.op = "New", !.config = config, !.outcome = r.outcome,
                                 !.err = r.err,
                                 !.logger = IF r.made THEN Len(loggers) + 1 ELSE 0]
       /\ UNCHANGED fmtCall

\* CustomLogger.Close
Close ==
  \E l \in 1..Len(loggers) :
    /\ lastOp' = [NoOp EXCEPT !.op = "Close", !.logger = l, !.err = FileSinkClose]
    /\ UNCHANGED <<loggers, logr, fmtCall>>

LevelCall(op, l, ctx, msg, fault, r) ==
  /\ lastOp' = [NoOp EXCEPT !.op = op, !.logger = l, !.ctx = ctx, !.msg = msg,
                            !.fault = fault, !.outcome = r.outcome,
                            !.sinkCalls = r.sinkCalls, !.writes = r.writes,
                            !.diag = r.diag]
  /\ UNCHANGED <<loggers, logr, fmtCall>>

\* CustomLogger.Error
Error(F) ==
  \E l \in 1..Len(loggers), ctx \in LogCtxs, msg \in Messages, fault \in F :
    LevelCall("Error", l, ctx, msg, fault,
              IF ErrorEnabled(loggers[l].config.Level)
              THEN formatAndLog(loggers[l], ctx, ERROR, msg, fault, logr) ELSE NoLog)

\* CustomLogger.Warn
Warn(F) ==
  \E l \in 1..Len(loggers), ctx \in LogCtxs, msg \in Messages, fault \in F :
    LevelCall("Warn", l, ctx, msg, fault,
              IF WarnEnabled(loggers[l].config.Level)
              THEN formatAndLog(loggers[l], ctx, WARN, msg, fault, logr) ELSE NoLog)

\* CustomLogger.Info
Info(F) ==
  \E l \in 1..Len(loggers), ctx \in LogCtxs, msg \in Messages, fault \in F :
    LevelCall("Info", l, ctx, msg, fault,
              IF InfoEnabled(loggers[l].config.Level)
              THEN formatAndLog(loggers[l], ctx, INFO, msg, fault, logr) ELSE NoLog)

\* CustomLogger.Debug
Debug(F) ==
  \E l \in 1..Len(loggers), ctx \in LogCtxs, msg \in Messages, fault \in F :
    LevelCall("Debug", l, ctx, msg, fault,
              IF DebugEnabled(loggers[l].config.Level)
              THEN formatAndLog(loggers[l], ctx, DEBUG, msg, fault, logr) ELSE NoLog)

Next == New \/ Close \/ Error({"none"}) \/ Warn({"none"}) \/ Info({"none"}) \/ Debug({"none"})

Spec == Init /\ [][Next]_vars

\* the same program with panics raised inside the sink's FormatMessage or
\* level write
NextFault == New \/ Close \/ Error(Faults) \/ Warn(Faults) \/ Info(Faults) \/ Debug(Faults)

FaultSpec == Init /\ [][NextFault]_vars

\* ------------------------------------------------- formatter on its own
KeyNames == {"k1", "k2", "k3"}
Values == {StrVal(""), StrVal("v1"), StrVal("v2"), IntVal}

SeqsUpTo(S, n) == UNION {[1..k -> S] : k \in 0..n}

KeyLists == SeqsUpTo(KeyNames, MaxKeys)
FmtCtxs == {NilCtx} \cup {Ctx(ps) : ps \in SeqsUpTo([key : KeyNames, value : Values], MaxCtx)}

\* a sink built as FileSink{ContextFields: ContextFieldConfig{Keys: Keys}} and
\* the arguments of one FormatMessage call on it
InitFormat ==
  /\ loggers = <<>>
  /\ logr = NilLogr
  /\ lastOp = NoOp
  /\ fmtCall \in [called : {FALSE}, Keys : KeyLists, ctx : FmtCtxs, msg : Messages,
                  out : {""}]

\* FileSink.FormatMessage(ctx, msg)
Format ==
  /\ ~fmtCall.called
  /\ fmtCall' = [fmtCall EXCEPT !.called = TRUE,
                                !.out = FormatMessage(fmtCall.Keys, fmtCall.ctx, fmtCall.msg)]
  /\ UNCHANGED <<loggers, logr, lastOp>>

NextFormat == Format

FormatSpec == InitFormat /\ [][NextFormat]_vars

\* ------------------------------------------------------------- properties
\* the severity order of the specification: DEBUG < INFO < WARN < ERROR < FATAL
Rank(level) ==
  CASE level = DEBUG -> 0
    [] level = INFO -> 1
    [] level = WARN -> 2
    [] level = ERROR -> 3
    [] level = FATAL -> 4

LevelOps == {"Debug", "Info", "Warn", "Error"}

MethodLevel(op) ==
  CASE op = "Debug" -> DEBUG
    [] op = "Info" -> INFO
    [] op = "Warn" -> WARN
    [] op = "Error" -> ERROR

IsLevelOp(o) == o.op \in LevelOps

\* the call o of logger c went to the sink exactly once, at the same-named
\* level method, carrying the formatted message of this very call
Forwarded(o, c) ==
  /\ Len(o.sinkCalls) = 1
  /\ o.sinkCalls[1].method = o.op
  /\ o.sinkCalls[1].msg = FormatMessage(c.sink.ContextFields.Keys, o.ctx, o.msg)

Dropped(o) == o.sinkCalls = <<>> /\ o.writes = <<>>

Gated(o, c) ==
  IF Rank(MethodLevel(o.op)) >= Rank(c.config.Level) THEN Forwarded(o, c) ELSE Dropped(o)

\* C1: a level call S on a logger with minimum severity M makes exactly one
\* sink call, at the same-named sink method, iff S >= M in the order
\* DEBUG < INFO < WARN < ERROR < FATAL; otherwise it makes no sink call and
\* no write, and whatever a call hands to the sink or the writer is the
\* message of that call, never a message dropped earlier.
C1_SeverityGate ==
  IsLevelOp(lastOp) =>
    /\ Gated(lastOp, loggers[lastOp.logger])
    /\ \A i \in 1..Len(lastOp.writes) :
         lastOp.writes[i].msg = lastOp.sinkCalls[1].msg

C1_Witness ==
  /\ lastOp.op = "Warn"
  /\ loggers[lastOp.logger].config.Level = WARN
  /\ lastOp.msg = "m2"
  /\ Len(lastOp.sinkCalls) = 1
  /\ Len(lastOp.writes) = 1

\* the value the context holds for key k is a non-empty text
HasText(ctx, k) ==
  LET v == Lookup(ctx.values, k) IN v.type = "string" /\ v.val # ""

RECURSIVE Brackets(_, _)
Brackets(Keys, ctx) ==
  IF Keys = <<>> THEN ""
  ELSE (IF HasText(ctx, Head(Keys))
        THEN "[" \o Head(Keys) \o ":" \o Lookup(ctx.values, Head(Keys)).val \o "]"
        ELSE "")
       \o Brackets(Tail(Keys), ctx)

Reference(Keys, ctx, msg) ==
  IF ctx.nil \/ (\A i \in 1..Len(Keys) : ~HasText(ctx, Keys[i]))
  THEN msg
  ELSE Brackets(Keys, ctx) \o " - " \o msg

\* C2: FormatMessage(ctx, msg) is msg unchanged when ctx is nil or no
\* configured key has a non-empty text value in ctx; otherwise one bracketed
\* "[name:value]" per configured key with a non-empty text value, in the order
\* of the key list, nothing between the brackets, then " - " and msg.
C2_FormatReference ==
  fmtCall.called => fmtCall.out = Reference(fmtCall.Keys, fmtCall.ctx, fmtCall.msg)

\* keys [k1,k2,k3], k2 put into the context before k1, k3 absent
C2_Witness ==
  /\ fmtCall.called
  /\ fmtCall.Keys = <<"k1", "k2", "k3">>
  /\ fmtCall.ctx = Ctx(<<[key |-> "k2", value |-> StrVal("v2")],
                         [key |-> "k1", value |-> StrVal("v1")]>>)
  /\ fmtCall.msg = "m1"
  /\ fmtCall.out = "[k1:v1][k2:v2] - m1"

\* C3: a panic raised inside the sink's FormatMessage or level write during
\* a level call does not leave the call: the call returns, the logger and
\* the writer are as before, and a call without a panic is gated and
\* forwarded as usual.
C3_PanicContained ==
  [][IsLevelOp(lastOp') =>
       /\ lastOp'.outcome = "returned"
       /\ loggers' = loggers /\ logr' = logr
       /\ (lastOp'.fault = "none" => Gated(lastOp', loggers'[lastOp'.logger]))]_vars

C3_Witness ==
  /\ IsLevelOp(lastOp)
  /\ lastOp.fault = "write"
  /\ Len(lastOp.sinkCalls) = 1
  /\ lastOp.writes = <<>>
  /\ lastOp.diag
  /\ lastOp.outcome = "returned"

\* C4: NewCustomLogger with a sink kind other than FILE returns an error
\* and no logger, and changes nothing else: no logger is added, nothing is
\* written, and the writer of the loggers built before stays in place.
C4_InvalidSinkKind ==
  [][(lastOp'.op = "New" /\ lastOp'.config.SinkType # FILE) =>
       /\ lastOp'.outcome = "returned"
       /\ lastOp'.err # NULL
       /\ lastOp'.logger = 0
       /\ lastOp'.writes = <<>>
       /\ loggers' = loggers /\ logr' = logr]_vars

C4_Witness ==
  /\ lastOp.op = "New"
  /\ lastOp.config.SinkType = BadSinkType
  /\ lastOp.err = "invalid sink type"
  /\ Len(loggers) = 1
  /\ ~logr.nil
  /\ ~lastOp.config.FileSinkConfig.nil
  /\ lastOp.config.FileSinkConfig.FilePath # logr.Filename

\* C5: every record an accepted level call writes goes through the writer
\* bound to the file path of the logger that was called, also when another
\* logger was built later.
C5_OwnWriter ==
  IsLevelOp(lastOp) =>
    \A i \in 1..Len(lastOp.writes) :
      lastOp.writes[i].Filename = loggers[lastOp.logger].config.FileSinkConfig.FilePath

\* C6: Close returns the sink's result, nil after a clean init, and releases
\* the writer: a level call on a logger whose Close has just returned does
\* not write.
C6_CloseReleases ==
  [][/\ lastOp'.op = "Close" => (lastOp'.outcome = "returned" /\ lastOp'.err = NULL)
     /\ (lastOp.op = "Close" /\ IsLevelOp(lastOp') /\ lastOp'.logger = lastOp.logger)
          => lastOp'.writes = <<>>]_vars

\* C7: NewCustomLogger with a file path whose writer cannot be opened
\* returns the initialisation error and no logger.
C7_InitFailure ==
  (/\ lastOp.op = "New"
   /\ lastOp.config.SinkType = FILE
   /\ ~lastOp.config.FileSinkConfig.nil
   /\ lastOp.config.FileSinkConfig.FilePath \notin Writable)
  => (lastOp.outcome = "returned" /\ lastOp.err # NULL /\ lastOp.logger = 0)

\* C8: for every configuration NewCustomLogger returns, without panicking,
\* either a logger and a nil error or no logger and an error.
C8_LoggerOrError ==
  lastOp.op = "New" =>
    /\ lastOp.outcome = "returned"
    /\ \/ (lastOp.logger # 0 /\ lastOp.err = NULL)
       \/ (lastOp.logger = 0 /\ lastOp.err # NULL)

\* C10: a logger built by NewCustomLogger has no context keys, and what an
\* accepted level call hands to the sink and to the writer is the raw
\* message, whatever the context carries.
C10_RawMessage ==
  /\ \A l \in 1..Len(loggers) : loggers[l].sink.ContextFields.Keys = <<>>
  /\ IsLevelOp(lastOp) =>
       /\ \A i \in 1..Len(lastOp.sinkCalls) : lastOp.sinkCalls[i].msg = lastOp.msg
       /\ \A i \in 1..Len(lastOp.writes) : lastOp.writes[i].msg = lastOp.msg

C10_Witness ==
  /\ IsLevelOp(lastOp)
  /\ ~lastOp.ctx.nil
  /\ Lookup(lastOp.ctx.values, "requestID") = StrVal("123")
  /\ lastOp.msg = "m1"
  /\ Len(lastOp.sinkCalls) = 1
  /\ Len(lastOp.writes) = 1
  /\ lastOp.writes[1].msg = "m1"

====
